---- MODULE Spec2Model ----
(***************************************************************************)
(* CoreHealthStats frontend: the data-fetching hooks of                    *)
(* hooks/useHealthData.ts, the helpers of utils/helpers.ts, the chart      *)
(* projections and the rendering of DashboardView and WorkoutView, the     *)
(* upload handler of UploadView, and useAuth with the token store of       *)
(* services/api.ts.                                                        *)
(*                                                                         *)
(* Module layout                                                           *)
(*   1. values and bounds                                                  *)
(*   2. the fetcher hooks (useWorkouts, useDailyMetrics,                   *)
(*      useNightlyMetrics, useHealthSummary, useWorkoutTrends,             *)
(*      useDailyTrends) as a state machine                                 *)
(*   3. calendar arithmetic, getLastNDays, getThisWeek, getThisMonth and   *)
(*      the getDateRange switches                                          *)
(*   4. numbers and the scalar helpers                                     *)
(*   5. entities, grouping and the chart projections                       *)
(*   6. the views and their hooks: renders, effects, the loading gate      *)
(*   7. UploadView.handleFileUpload and its timers                         *)
(*   8. useAuth, login / logout and the token store                        *)
(*   9. specifications: Spec (hooks), SpecGuarded (hooks given no dates),  *)
(*      FairSpec (one hook, every request settling), SpecDates (date       *)
(*      helpers), SpecStats (scalar helpers), SpecCharts (grouping and     *)
(*      projections), SpecView and FairSpecView (a mounted view),          *)
(*      SpecUpload (UploadView), SpecAuth (useAuth)                        *)
(*  10. properties                                                         *)
(***************************************************************************)

EXTENDS Integers, Sequences, FiniteSets, TLC

VARIABLES
    hs,        \* hook instance -> [data, loading, error]: the three useState cells
    bound,     \* hook instance -> [val, ref]: the parameter object of the latest render
    calls,     \* the hook instances the mounted component calls
    mounted,   \* hook instance -> BOOLEAN: the mount effect has run
    inflight,  \* hook instance -> set of [id, param]: requests awaiting their response
    nextReq,   \* id given to the next request
    nextRef,   \* identity given to the next parameter object
    last,      \* the step taken last: [hook, kind, req, prior, results]
    today,     \* the system date dayjs() reads: [y, m, d]
    range,     \* the last getLastNDays call of this render pass: [days, at, value]
    call,      \* the last call of a helper or projection: [fn, arg, ret]
    page,      \* the mounted view: [name, dirty, seen, shown]; seen and shown are the
               \* hooks that were done, and whose data was shown, at the last render
    upload,    \* UploadView: its state cells, timers and the upload in progress
    auth       \* useAuth and the token store: the token, the state cell, pending calls

fetchVars == <<hs, bound, calls, mounted, inflight, nextReq, nextRef, last>>
dateVars == <<today, range, call>>
uiVars == <<page, upload, auth>>
vars ==
    <<hs, bound, calls, mounted, inflight, nextReq, nextRef, last, today, range, call,
      page, upload, auth>>

(***************************************************************************)
(* 1. Values and bounds                                                    *)
(***************************************************************************)

\* Requests issued in one run, over all hook instances.
MaxRequests == 3

\* Parameter objects created by re-renders in one run, over all hook instances.
MaxObjects == 2

\* The system dates considered: every day of FirstYear .. FirstYear + NumYears - 1.
FirstYear == 2023

NumYears == 2

Null == "null"
Undefined == "undefined"

Hooks ==
    {"useWorkouts", "useDailyMetrics", "useNightlyMetrics", "useHealthSummary",
     "useWorkoutTrends", "useDailyTrends"}

CollectionHooks == {"useWorkouts", "useDailyMetrics", "useNightlyMetrics"}

\* The hooks that fetch only behind `if (dateRange.start_date && dateRange.end_date)`.
GuardedHooks == {"useHealthSummary", "useWorkoutTrends", "useDailyTrends"}

\* WorkoutFilter values a view binds to useWorkouts; the activity type is
\* undefined while the activity selector stands at 'all'.
WorkoutFilters ==
    { [workout_activity_type |-> a, start_date |-> "2024-02-09", end_date |-> "2024-03-10"]
        : a \in {Undefined, "running", "cycling"} }

\* DateRange values a caller binds to the date-range hooks; the last one has an
\* empty start_date.
DateRanges ==
    { [start_date |-> "2024-03-03", end_date |-> "2024-03-10"],
      [start_date |-> "2024-02-09", end_date |-> "2024-03-10"] }

EmptyRanges == { [start_date |-> "", end_date |-> "2024-03-10"] }

\* The ranges a caller may hold before both dates are chosen.
UnsetRanges ==
    { [start_date |-> "", end_date |-> "2024-03-10"],
      [start_date |-> "2024-02-09", end_date |-> ""],
      [start_date |-> "", end_date |-> ""] }

ParamsOf(h) ==
    CASE h = "useWorkouts" -> WorkoutFilters
      [] h \in GuardedHooks -> DateRanges \cup EmptyRanges
      [] OTHER -> DateRanges

\* The parameter of the first render: what both views bind on mount
\* (timeRange '30days', activityFilter 'all').
FirstParam(h) ==
    IF h = "useWorkouts"
    THEN [workout_activity_type |-> Undefined, start_date |-> "2024-02-09",
          end_date |-> "2024-03-10"]
    ELSE [start_date |-> "2024-02-09", end_date |-> "2024-03-10"]

\* The sets of hook instances of one component that are followed together:
\* each hook alone, and pairs of instances mounted side by side.
Components ==
    { {h} : h \in Hooks } \cup
    { {"useWorkouts", "useDailyMetrics"}, {"useNightlyMetrics", "useHealthSummary"} }

\* What the server may answer: response.results for the collection endpoints,
\* the response itself for the summary endpoint.
Collections == { <<>>, <<"e1">>, <<"e1", "e2">> }

\* HealthSummary | null, as a sequence of at most one summary.
NoSummary == <<>>

Summaries == { <<"summaryA">>, <<"summaryB">> }

\* The trends responses (type any), held the same way.
Trends == { <<"trendsA">>, <<"trendsB">> }

ResponsesOf(h) ==
    CASE h \in CollectionHooks -> Collections
      [] h = "useHealthSummary" -> Summaries
      [] OTHER -> Trends

(***************************************************************************)
(* 2. The fetcher hooks                                                    *)
(***************************************************************************)

\* useState initial values.
InitialState(h) ==
    [data |-> IF h \in CollectionHooks THEN <<>> ELSE NoSummary,
     loading |-> TRUE,
     error |-> Null]

ErrorMessage(h) ==
    CASE h = "useWorkouts" -> "Failed to fetch workouts"
      [] h = "useDailyMetrics" -> "Failed to fetch daily metrics"
      [] h = "useNightlyMetrics" -> "Failed to fetch nightly metrics"
      [] h = "useHealthSummary" -> "Failed to fetch health summary"
      [] h = "useWorkoutTrends" -> "Failed to fetch workout trends"
      [] OTHER -> "Failed to fetch daily trends"

\* The fields of the object each hook returns.
ResultFields(h) ==
    IF h = "useWorkouts"
    THEN {"data", "loading", "error", "refetch"}
    ELSE {"data", "loading", "error"}

\* Variant: the state cells live at module level, shared by all instances.
SettersShared(h) == Hooks

\* The hook instances whose state cells the setters of instance h write:
\* every hook calls useState itself, so its cells are its own.
Setters(h) == {h}

\* Variant: the dependency is compared by value instead of by identity.
DepsChangedByValue(old, new) == old.val # new.val

\* useEffect's dependency test: Object.is on the single dependency.
DepsChanged(old, new) == old.ref # new.ref

\* Variant: the fetch call stands in the effect without a guard.
ShouldFetchAlways(h, p) == TRUE

\* The guard in front of the fetch call inside the effect.
ShouldFetch(h, p) ==
    h \in GuardedHooks => (p.start_date # "" /\ p.end_date # "")

\* Variant: the fetch function clears the error before the request.
StartFetchClearsError(s) == [s EXCEPT !.loading = TRUE, !.error = Null]

\* try { setLoading(true); await ... : the synchronous part of the fetch function.
StartFetch(s) == [s EXCEPT !.loading = TRUE]

\* Variant: the success path without setError(null).
FetchSuccessKeepsError(h, s, response) ==
    [s EXCEPT !.data = response, !.loading = FALSE]

\* ... setX(response.results); setError(null); } finally { setLoading(false); }
FetchSuccess(h, s, response) ==
    [s EXCEPT !.data = response, !.error = Null, !.loading = FALSE]

\* Variant: the catch block without the reset of the collection.
FetchFailureKeepsData(h, s) ==
    [s EXCEPT !.error = ErrorMessage(h), !.loading = FALSE]

\* Variant: every hook resets what it holds in its catch block.
FetchFailureResetsAll(h, s) ==
    [s EXCEPT !.error = ErrorMessage(h), !.data = <<>>, !.loading = FALSE]

\* Variant: the catch block without the finally block after it.
FetchFailureNoFinally(h, s) ==
    IF h \in CollectionHooks
    THEN [s EXCEPT !.error = ErrorMessage(h), !.data = <<>>]
    ELSE [s EXCEPT !.error = ErrorMessage(h)]

\* catch { setError(msg); setX([]) (collection hooks only) } finally { setLoading(false); }
FetchFailure(h, s) ==
    IF h \in CollectionHooks
    THEN [s EXCEPT !.error = ErrorMessage(h), !.data = <<>>, !.loading = FALSE]
    ELSE [s EXCEPT !.error = ErrorMessage(h), !.loading = FALSE]

\* Writing the new state of instance h into the cells its setters own.
Commit(h, s) == [g \in Hooks |-> IF g \in Setters(h) THEN s ELSE hs[g]]

Event(h, kind, req, response) ==
    [hook |-> h, kind |-> kind, req |-> req, prior |-> hs[h], results |-> response]

NoRequest == [id |-> 0, param |-> Undefined]

\* The fetch function up to its await: setLoading(true) and the API call.
IssueRequest(h, kind) ==
    LET req == [id |-> nextReq, param |-> bound'[h].val] IN
    /\ nextReq <= MaxRequests
    /\ hs' = Commit(h, StartFetch(hs[h]))
    /\ inflight' = [inflight EXCEPT ![h] = @ \cup {req}]
    /\ nextReq' = nextReq + 1
    /\ last' = Event(h, kind, req, Null)

\* The body of the effect: the fetch call, behind the hook's guard.
RunEffect(h, kind) ==
    IF ShouldFetch(h, bound'[h].val)
    THEN IssueRequest(h, kind)
    ELSE /\ last' = Event(h, "skip", NoRequest, Null)
         /\ UNCHANGED <<hs, inflight, nextReq>>

\* The effect of the first render.
Mount(h) ==
    /\ h \in calls
    /\ ~mounted[h]
    /\ mounted' = [mounted EXCEPT ![h] = TRUE]
    /\ UNCHANGED <<bound, calls, nextRef>>
    /\ RunEffect(h, "activate")
    /\ UNCHANGED dateVars
    /\ UNCHANGED uiVars

\* A re-render that passes parameter object p, and the effect when the
\* dependency changed.
Render(h, p) ==
    /\ mounted[h]
    /\ bound' = [bound EXCEPT ![h] = p]
    /\ nextRef' = IF p.ref = nextRef THEN nextRef + 1 ELSE nextRef
    /\ UNCHANGED <<calls, mounted>>
    /\ IF DepsChanged(bound[h], p)
       THEN RunEffect(h, "activate")
       ELSE /\ last' = Event(h, "render", NoRequest, Null)
            /\ UNCHANGED <<hs, inflight, nextReq>>
    /\ UNCHANGED dateVars
    /\ UNCHANGED uiVars

\* The parameter objects a re-render can pass: the one already bound, or a
\* newly created one.
RenderArgs(h) ==
    {bound[h]} \cup
    (IF nextRef <= MaxObjects
     THEN { [val |-> v, ref |-> nextRef] : v \in ParamsOf(h) }
     ELSE {})

\* Variant: refetch closes over the filter of the first render (a useCallback
\* with an empty dependency list).
RefetchStaleFilter(h) ==
    LET req == [id |-> nextReq, param |-> FirstParam(h)] IN
    /\ mounted[h]
    /\ "refetch" \in ResultFields(h)
    /\ nextReq <= MaxRequests
    /\ hs' = Commit(h, StartFetch(hs[h]))
    /\ inflight' = [inflight EXCEPT ![h] = @ \cup {req}]
    /\ nextReq' = nextReq + 1
    /\ last' = Event(h, "refetch", req, Null)
    /\ UNCHANGED <<bound, calls, nextRef, mounted>>
    /\ UNCHANGED dateVars
    /\ UNCHANGED uiVars

\* The caller invokes the refetch function of the hook's result.
Refetch(h) ==
    /\ mounted[h]
    /\ "refetch" \in ResultFields(h)
    /\ UNCHANGED <<bound, calls, nextRef, mounted>>
    /\ IssueRequest(h, "refetch")
    /\ UNCHANGED dateVars
    /\ UNCHANGED uiVars

\* Variant: a response is committed only when its request carries the
\* parameter that is bound when it resolves.
ResolveIfCurrent(h, req, response) ==
    /\ req \in inflight[h]
    /\ hs' = IF req.param = bound[h].val
             THEN Commit(h, FetchSuccess(h, hs[h], response))
             ELSE hs
    /\ inflight' = [inflight EXCEPT ![h] = @ \ {req}]
    /\ last' = Event(h, "success", req, response)
    /\ UNCHANGED <<bound, calls, mounted, nextReq, nextRef>>
    /\ UNCHANGED dateVars
    /\ UNCHANGED uiVars

\* The awaited call resolves with `response`.
Resolve(h, req, response) ==
    /\ req \in inflight[h]
    /\ hs' = Commit(h, FetchSuccess(h, hs[h], response))
    /\ inflight' = [inflight EXCEPT ![h] = @ \ {req}]
    /\ last' = Event(h, "success", req, response)
    /\ UNCHANGED <<bound, calls, mounted, nextReq, nextRef>>
    /\ UNCHANGED dateVars
    /\ UNCHANGED uiVars

\* Variant: the catch block calls the fetch function again.
RejectAndRetry(h, req) ==
    LET again == [id |-> nextReq, param |-> req.param] IN
    /\ req \in inflight[h]
    /\ nextReq <= MaxRequests
    /\ hs' = Commit(h, StartFetch(FetchFailure(h, hs[h])))
    /\ inflight' = [inflight EXCEPT ![h] = (@ \ {req}) \cup {again}]
    /\ nextReq' = nextReq + 1
    /\ last' = Event(h, "failure", req, Null)
    /\ UNCHANGED <<bound, calls, mounted, nextRef>>
    /\ UNCHANGED dateVars
    /\ UNCHANGED uiVars

\* The awaited call rejects.
Reject(h, req) ==
    /\ req \in inflight[h]
    /\ hs' = Commit(h, FetchFailure(h, hs[h]))
    /\ inflight' = [inflight EXCEPT ![h] = @ \ {req}]
    /\ last' = Event(h, "failure", req, Null)
    /\ UNCHANGED <<bound, calls, mounted, nextReq, nextRef>>
    /\ UNCHANGED dateVars
    /\ UNCHANGED uiVars

InitFetch ==
    /\ hs = [h \in Hooks |-> InitialState(h)]
    /\ calls \in Components
    /\ bound = [h \in Hooks |-> [val |-> FirstParam(h), ref |-> 0]]
    /\ mounted = [h \in Hooks |-> FALSE]
    /\ inflight = [h \in Hooks |-> {}]
    /\ nextReq = 1
    /\ nextRef = 1
    /\ last = [hook |-> Null, kind |-> "init", req |-> NoRequest,
               prior |-> Null, results |-> Null]

NextFetch ==
    \/ \E h \in Hooks : Mount(h)
    \/ \E h \in Hooks : \E p \in RenderArgs(h) : Render(h, p)
    \/ \E h \in Hooks : Refetch(h)
    \/ \E h \in Hooks : \E req \in inflight[h] : \E r \in ResponsesOf(h) : Resolve(h, req, r)
    \/ \E h \in Hooks : \E req \in inflight[h] : Reject(h, req)

(***************************************************************************)
(* 3. Calendar arithmetic and getLastNDays                                 *)
(*                                                                         *)
(* A dayjs object is [y, M, D] with M counted from 0 as in $M.  dayjs      *)
(* subtracts days with Date.prototype.setDate, which ECMAScript defines by *)
(* MakeDay / YearFromTime / MonthFromTime / DateFromTime on day numbers    *)
(* counted from 1970-01-01.                                                *)
(***************************************************************************)

IsLeapYear(y) == (y % 4 = 0 /\ y % 100 # 0) \/ y % 400 = 0

\* ECMAScript DayFromYear.
DayFromYear(y) ==
    365 * (y - 1970) + ((y - 1969) \div 4) - ((y - 1901) \div 100) + ((y - 1601) \div 400)

\* Day of the year on which month M (0-based) starts.
MonthStart(y, M) ==
    LET leap == IF IsLeapYear(y) THEN 1 ELSE 0 IN
    CASE M = 0 -> 0
      [] M = 1 -> 31
      [] M = 2 -> 59 + leap
      [] M = 3 -> 90 + leap
      [] M = 4 -> 120 + leap
      [] M = 5 -> 151 + leap
      [] M = 6 -> 181 + leap
      [] M = 7 -> 212 + leap
      [] M = 8 -> 243 + leap
      [] M = 9 -> 273 + leap
      [] M = 10 -> 304 + leap
      [] M = 11 -> 334 + leap
      [] OTHER -> 365 + leap

\* ECMAScript MakeDay(year, month, date) for month in 0 .. 11.
MakeDay(y, M, date) == DayFromYear(y) + MonthStart(y, M) + date - 1

\* ECMAScript YearFromTime on a day number.
YearFromDay(day) ==
    CHOOSE y \in (FirstYear - 2) .. (FirstYear + NumYears + 1) :
        DayFromYear(y) <= day /\ day < DayFromYear(y + 1)

\* ECMAScript MonthFromTime on a day number.
MonthFromDay(day) ==
    LET y == YearFromDay(day)
        dayInYear == day - DayFromYear(y)
    IN  CHOOSE M \in 0 .. 11 :
            MonthStart(y, M) <= dayInYear /\ dayInYear < MonthStart(y, M + 1)

\* ECMAScript DateFromTime on a day number.
DateFromDay(day) ==
    LET y == YearFromDay(day) IN
    day - DayFromYear(y) - MonthStart(y, MonthFromDay(day)) + 1

\* Date.prototype.setDate(date): the calendar fields after the day of the
\* month is set to any integer.
SetDate(t, date) ==
    LET day == MakeDay(t.y, t.M, date) IN
    [y |-> YearFromDay(day), M |-> MonthFromDay(day), D |-> DateFromDay(day)]

\* Variant: the window counts today as its first day.
SubtractInclusive(t, n) == SetDate(t, t.D - n + 1)

\* dayjs add(-n, 'day'): d.date(d.date() + Math.round(1 * -n)).
Subtract(t, n) == SetDate(t, t.D - n)

Digit(k) == <<"0", "1", "2", "3", "4", "5", "6", "7", "8", "9">>[k + 1]

\* padStart(len, '0') of a number below 10^len, as a sequence of characters.
Pad2(k) == <<Digit((k \div 10) % 10), Digit(k % 10)>>

Pad4(k) == <<Digit((k \div 1000) % 10), Digit((k \div 100) % 10)>> \o Pad2(k % 100)

\* dayjs format('YYYY-MM-DD'): the year, the month $M + 1 and the day, padded.
FormatYMD(t) == Pad4(t.y) \o <<"-">> \o Pad2(t.M + 1) \o <<"-">> \o Pad2(t.D)

getLastNDays(now, days) ==
    LET endDate == now
        startDate == Subtract(endDate, days)
    IN  [start_date |-> FormatYMD(startDate), end_date |-> FormatYMD(endDate)]

\* The windows the views ask for.
WindowDays == {7, 30, 90}

DaysInMonth(y, M) == MonthStart(y, M + 1) - MonthStart(y, M)

\* Every calendar date of the years considered.
SystemDates ==
    { t \in [y : FirstYear .. (FirstYear + NumYears - 1), M : 0 .. 11, D : 1 .. 31] :
        t.D <= DaysInMonth(t.y, t.M) }

\* No call of this render pass yet.
NoRange == [days |-> 0, at |-> Null, value |-> Null]

NoCall == [fn |-> "none", arg |-> Null, ret |-> Null]

\* Date.prototype.getDay: 0 is Sunday; 1970-01-01 was a Thursday.
WeekDay(t) == (MakeDay(t.y, t.M, t.D) + 4) % 7

\* new Date(y, M, D) with D any integer and M in 0 .. 12.
DateOf(y, M, D) ==
    LET day == MakeDay(y, M, D) IN
    [y |-> YearFromDay(day), M |-> MonthFromDay(day), D |-> DateFromDay(day)]

\* dayjs startOf('week') / endOf('week'); the default locale sets no
\* weekStart, so the week starts on Sunday: gap = $W.
StartOfWeek(t) == DateOf(t.y, t.M, t.D - WeekDay(t))

EndOfWeek(t) == DateOf(t.y, t.M, t.D + (6 - WeekDay(t)))

\* dayjs startOf('month') / endOf('month'): day 1 of $M, day 0 of $M + 1.
StartOfMonth(t) == DateOf(t.y, t.M, 1)

\* Variant: day 0 of $M, the last day of the month before.
EndOfPreviousMonth(t) == DateOf(t.y, t.M, 0)

EndOfMonth(t) == DateOf(t.y, t.M + 1, 0)

getThisWeek(now) ==
    [start_date |-> FormatYMD(StartOfWeek(now)), end_date |-> FormatYMD(EndOfWeek(now))]

getThisMonth(now) ==
    [start_date |-> FormatYMD(StartOfMonth(now)), end_date |-> FormatYMD(EndOfMonth(now))]

Views == {"DashboardView", "WorkoutView"}

\* Values of the timeRange state: the ones some view handles, and "year" for
\* a value no view handles.
TimeRanges == {"7days", "30days", "90days", "week", "month", "year"}

\* Variant: the default branch of the switch returns the 7-day window.
getDateRangeDefault7(view, now, timeRange) ==
    IF view = "DashboardView"
    THEN CASE timeRange = "7days" -> getLastNDays(now, 7)
           [] timeRange = "30days" -> getLastNDays(now, 30)
           [] timeRange = "week" -> getThisWeek(now)
           [] timeRange = "month" -> getThisMonth(now)
           [] OTHER -> getLastNDays(now, 7)
    ELSE CASE timeRange = "7days" -> getLastNDays(now, 7)
           [] timeRange = "30days" -> getLastNDays(now, 30)
           [] timeRange = "90days" -> getLastNDays(now, 90)
           [] OTHER -> getLastNDays(now, 7)

\* Variant: the week and month branches of DashboardView are exchanged.
getDateRangeSwapped(view, now, timeRange) ==
    IF view = "DashboardView"
    THEN CASE timeRange = "7days" -> getLastNDays(now, 7)
           [] timeRange = "30days" -> getLastNDays(now, 30)
           [] timeRange = "week" -> getThisMonth(now)
           [] timeRange = "month" -> getThisWeek(now)
           [] OTHER -> getLastNDays(now, 30)
    ELSE CASE timeRange = "7days" -> getLastNDays(now, 7)
           [] timeRange = "30days" -> getLastNDays(now, 30)
           [] timeRange = "90days" -> getLastNDays(now, 90)
           [] OTHER -> getLastNDays(now, 30)

\* The switch of DashboardView.getDateRange and of WorkoutView.getDateRange.
getDateRange(view, now, timeRange) ==
    IF view = "DashboardView"
    THEN CASE timeRange = "7days" -> getLastNDays(now, 7)
           [] timeRange = "30days" -> getLastNDays(now, 30)
           [] timeRange = "week" -> getThisWeek(now)
           [] timeRange = "month" -> getThisMonth(now)
           [] OTHER -> getLastNDays(now, 30)
    ELSE CASE timeRange = "7days" -> getLastNDays(now, 7)
           [] timeRange = "30days" -> getLastNDays(now, 30)
           [] timeRange = "90days" -> getLastNDays(now, 90)
           [] OTHER -> getLastNDays(now, 30)

\* A view evaluates getLastNDays(n) at the current system date.
CallGetLastNDays(n) ==
    /\ range' = [days |-> n, at |-> today, value |-> getLastNDays(today, n)]
    /\ call' = NoCall
    /\ UNCHANGED today
    /\ UNCHANGED fetchVars
    /\ UNCHANGED uiVars

\* A view renders with timeRange state `timeRange`: const dateRange = getDateRange().
CallGetDateRange(view, timeRange) ==
    /\ call' = [fn |-> "getDateRange",
                arg |-> [view |-> view, timeRange |-> timeRange, now |-> today],
                ret |-> getDateRange(view, today, timeRange)]
    /\ range' = NoRange
    /\ UNCHANGED today
    /\ UNCHANGED fetchVars
    /\ UNCHANGED uiVars

\* Midnight passes; the value of the earlier render pass is gone.
NextDay ==
    /\ SetDate(today, today.D + 1) \in SystemDates
    /\ today' = SetDate(today, today.D + 1)
    /\ range' = NoRange
    /\ call' = NoCall
    /\ UNCHANGED fetchVars
    /\ UNCHANGED uiVars

NextDates ==
    \/ \E n \in WindowDays : CallGetLastNDays(n)
    \/ \E view \in Views : \E timeRange \in TimeRanges : CallGetDateRange(view, timeRange)
    \/ NextDay

(***************************************************************************)
(* 4. Numbers and the scalar helpers                                       *)
(*                                                                         *)
(* A JavaScript number is a binary floating-point value.  The model keeps  *)
(* the format and narrows it: a number is a non-negative integer count of  *)
(* units of 2^-FractionBits, representable when it has at most Precision   *)
(* significant bits, and every arithmetic operation rounds its exact       *)
(* result to the nearest representable number, ties to the even            *)
(* significand.                                                            *)
(***************************************************************************)

\* Significant bits of a number (53 in binary64).
Precision == 8

\* The smallest unit is 2^-FractionBits.
FractionBits == 8

\* Entities or values in one collection handed to a helper.
MaxLen == 3

RECURSIVE Pow2(_)
Pow2(n) == IF n = 0 THEN 1 ELSE 2 * Pow2(n - 1)

\* Bits to drop from the integer part x to keep Precision bits.
RECURSIVE Shift(_)
Shift(x) == IF x < Pow2(Precision) THEN 0 ELSE 1 + Shift(x \div 2)

\* The representable number nearest to num / den units, ties to even.
RoundRat(num, den) ==
    LET step == Pow2(Shift(num \div den))
        m == num \div (den * step)
        rem == num - m * den * step
        up == IF 2 * rem > den * step THEN 1
              ELSE IF 2 * rem = den * step THEN m % 2
              ELSE 0
    IN  (m + up) * step

\* The number of an integer literal.
FromInt(n) == RoundRat(n * Pow2(FractionBits), 1)

\* The number of a decimal literal num/den, as 0.6 is 6/10.
Literal(num, den) == RoundRat(num * Pow2(FractionBits), den)

\* a + b, a * b and a / b of the language.
Fadd(a, b) == RoundRat(a + b, 1)

Fmul(a, b) == RoundRat(a * b, Pow2(FractionBits))

Fdiv(a, b) == RoundRat(a * Pow2(FractionBits), b)

\* values.reduce((sum, val) => sum + val, 0)
RECURSIVE ReduceSum(_, _)
ReduceSum(values, sum) ==
    IF values = <<>> THEN sum ELSE ReduceSum(Tail(values), Fadd(sum, Head(values)))

Elements(values) == {values[i] : i \in 1 .. Len(values)}

\* Variant: the sum starts from 1.
calculateSumFromOne(values) == ReduceSum(values, FromInt(1))

calculateSum(values) == ReduceSum(values, FromInt(0))

calculateAverage(values) ==
    IF Len(values) = 0 THEN FromInt(0)
    ELSE Fdiv(ReduceSum(values, FromInt(0)), FromInt(Len(values)))

calculateMax(values) ==
    IF Len(values) = 0 THEN FromInt(0)
    ELSE CHOOSE x \in Elements(values) : \A y \in Elements(values) : y <= x

calculateMin(values) ==
    IF Len(values) = 0 THEN FromInt(0)
    ELSE CHOOSE x \in Elements(values) : \A y \in Elements(values) : x <= y

\* Variant: zone 3 starts at 75% of maxHR.
calculateHeartRateZonesShifted(maxHR) ==
    << [zone |-> "Zone 1 (Recovery)", time |-> Fmul(maxHR, Literal(5, 10)),
        percentage |-> 50, color |-> "#4FC3F7"],
       [zone |-> "Zone 2 (Aerobic)", time |-> Fmul(maxHR, Literal(6, 10)),
        percentage |-> 60, color |-> "#81C784"],
       [zone |-> "Zone 3 (Threshold)", time |-> Fmul(maxHR, Literal(75, 100)),
        percentage |-> 70, color |-> "#FFB74D"],
       [zone |-> "Zone 4 (VO2 Max)", time |-> Fmul(maxHR, Literal(8, 10)),
        percentage |-> 80, color |-> "#FF8A65"],
       [zone |-> "Zone 5 (Anaerobic)", time |-> Fmul(maxHR, Literal(9, 10)),
        percentage |-> 90, color |-> "#F06292"] >>

calculateHeartRateZones(maxHR) ==
    << [zone |-> "Zone 1 (Recovery)", time |-> Fmul(maxHR, Literal(5, 10)),
        percentage |-> 50, color |-> "#4FC3F7"],
       [zone |-> "Zone 2 (Aerobic)", time |-> Fmul(maxHR, Literal(6, 10)),
        percentage |-> 60, color |-> "#81C784"],
       [zone |-> "Zone 3 (Threshold)", time |-> Fmul(maxHR, Literal(7, 10)),
        percentage |-> 70, color |-> "#FFB74D"],
       [zone |-> "Zone 4 (VO2 Max)", time |-> Fmul(maxHR, Literal(8, 10)),
        percentage |-> 80, color |-> "#FF8A65"],
       [zone |-> "Zone 5 (Anaerobic)", time |-> Fmul(maxHR, Literal(9, 10)),
        percentage |-> 90, color |-> "#F06292"] >>

\* Numbers handed to the aggregators: 0, whole heart rates, and the numbers
\* around 1 whose significand uses every bit.
Samples ==
    {FromInt(0), FromInt(60), FromInt(72)}
        \cup {k \in (Pow2(Precision) - 3) .. Pow2(Precision) : RoundRat(k, 1) = k}

RECURSIVE SeqsUpTo(_, _)
SeqsUpTo(S, n) ==
    IF n = 0 THEN {<<>>}
    ELSE LET shorter == SeqsUpTo(S, n - 1)
         IN  shorter \cup {Append(q, x) : q \in {r \in shorter : Len(r) = n - 1}, x \in S}

Aggregators == {"calculateAverage", "calculateMax", "calculateMin", "calculateSum"}

Aggregate(fn, values) ==
    CASE fn = "calculateAverage" -> calculateAverage(values)
      [] fn = "calculateMax" -> calculateMax(values)
      [] fn = "calculateMin" -> calculateMin(values)
      [] fn = "calculateSum" -> calculateSum(values)

\* Whole maximum heart rates, each a representable number.
MaxHeartRates == {FromInt(n) : n \in 1 .. (Pow2(Precision) - 1)}

\* The render pass that made the call is over; its value is dropped.
EndRender ==
    /\ call # NoCall
    /\ call' = NoCall
    /\ UNCHANGED <<today, range>>
    /\ UNCHANGED fetchVars
    /\ UNCHANGED uiVars

CallAggregator(fn, values) ==
    /\ call = NoCall
    /\ call' = [fn |-> fn, arg |-> values, ret |-> Aggregate(fn, values)]
    /\ UNCHANGED <<today, range>>
    /\ UNCHANGED fetchVars
    /\ UNCHANGED uiVars

CallHeartRateZones(maxHR) ==
    /\ call = NoCall
    /\ call' = [fn |-> "calculateHeartRateZones", arg |-> maxHR,
                ret |-> calculateHeartRateZones(maxHR)]
    /\ UNCHANGED <<today, range>>
    /\ UNCHANGED fetchVars
    /\ UNCHANGED uiVars

NextStats ==
    \/ \E fn \in Aggregators : \E values \in SeqsUpTo(Samples, MaxLen) :
           CallAggregator(fn, values)
    \/ \E maxHR \in MaxHeartRates : CallHeartRateZones(maxHR)
    \/ EndRender

(***************************************************************************)
(* 5. Entities, grouping and the chart projections                         *)
(*                                                                         *)
(* A field of type `number | null` or `number?` is [tag, v]: tag tells     *)
(* null, undefined and number apart and v is the number.                   *)
(***************************************************************************)

JsNull == [tag |-> "null", v |-> 0]

JsUndefined == [tag |-> "undefined", v |-> 0]

Num(n) == [tag |-> "number", v |-> n]

\* ToBoolean of such a field: null, undefined and 0 are falsy.
Truthy(x) == x.tag = "number" /\ x.v # 0

\* Variant: the default is taken even when the field is truthy.
AlwaysZero(x) == FromInt(0)

\* x || 0
OrZero(x) == IF Truthy(x) THEN x.v ELSE FromInt(0)

\* metrics.filter(m => m.field)
FilterTruthy(metrics, field) == SelectSeq(metrics, LAMBDA m : Truthy(m[field]))

\* The two calendar days the entities of the model fall on.
EntityDays == {[y |-> FirstYear + 1, M |-> 2, D |-> 9], [y |-> FirstYear + 1, M |-> 2, D |-> 10]}

\* start_date of a workout: a local date and hour, as dayjs reads the string.
StartDates == [day : EntityDays, hour : {8, 20}]

\* formatDate(date) == dayjs(date).format('YYYY-MM-DD')
formatDate(date) == FormatYMD(date.day)

\* Workouts that differ in start_date only; id is the position in the response.
WorkoutAt(id, start) ==
    [id |-> id, start_date |-> start, duration |-> FromInt(30),
     total_distance |-> JsNull, total_energy_burned |-> Num(FromInt(450)),
     avg_heart_rate |-> JsUndefined, trimp_score |-> JsUndefined,
     workout_activity_type |-> "running"]

WorkoutsByStart ==
    {[i \in 1 .. Len(starts) |-> WorkoutAt(i, starts[i])] : starts \in SeqsUpTo(StartDates, MaxLen)}

\* Workouts that differ in their optional fields.
WorkoutWith(id, distance, energy, heart_rate, trimp_score) ==
    [id |-> id, start_date |-> [day |-> [y |-> FirstYear + 1, M |-> 2, D |-> 10], hour |-> 8],
     duration |-> FromInt(30),
     total_distance |-> distance, total_energy_burned |-> energy,
     avg_heart_rate |-> heart_rate, trimp_score |-> trimp_score,
     workout_activity_type |-> "running"]

\* Each field absent and present; of heart_rate and trimp_score one is absent.
OptionalFields ==
    {f \in [distance : {JsNull, Num(FromInt(0)), Num(FromInt(5))},
            energy : {JsNull, Num(FromInt(450))},
            heart_rate : {JsUndefined, Num(FromInt(150))},
            trimp_score : {JsUndefined, Num(FromInt(80))}] :
        (f.heart_rate = JsUndefined) # (f.trimp_score = JsUndefined)}

WorkoutsByFields ==
    {[i \in 1 .. Len(fs) |->
         WorkoutWith(i, fs[i].distance, fs[i].energy, fs[i].heart_rate, fs[i].trimp_score)] :
        fs \in SeqsUpTo(OptionalFields, MaxLen - 1)}

\* Daily metrics; `date` is the string the API sent.
DailyValues ==
    [date : {FormatYMD(d) : d \in EntityDays},
     avg_heart_rate : {JsNull, Num(FromInt(0)), Num(FromInt(72))},
     step_count : {JsNull, Num(FromInt(0)), Num(FromInt(8000))}]

DailyMetricsLists ==
    {[i \in 1 .. Len(ms) |->
         [id |-> i, date |-> ms[i].date, avg_heart_rate |-> ms[i].avg_heart_rate,
          step_count |-> ms[i].step_count]] :
        ms \in SeqsUpTo(DailyValues, MaxLen - 1)}

\* Nightly metrics, one per night: the date follows from the position.
SleepDurations == {JsNull, Num(FromInt(0)), Num(FromInt(420)), Num(FromInt(480))}

NightlyMetricsLists ==
    {[i \in 1 .. Len(ds) |->
         [id |-> i, date |-> FormatYMD([y |-> FirstYear + 1, M |-> 2, D |-> i]),
          sleep_duration |-> ds[i]]] :
        ds \in SeqsUpTo(SleepDurations, MaxLen)}

\* The object {} of the reduce: a function with no key.
NoGroups == [key \in {} |-> <<>>]

\* Variant: groups[date] = [workout] on every workout.
RECURSIVE groupWorkoutsByDateReset(_, _)
groupWorkoutsByDateReset(workouts, groups) ==
    IF workouts = <<>> THEN groups
    ELSE LET workout == Head(workouts)
             date == formatDate(workout.start_date)
         IN  groupWorkoutsByDateReset(Tail(workouts),
                 [key \in DOMAIN groups \cup {date} |->
                     IF key = date THEN <<workout>> ELSE groups[key]])

RECURSIVE groupWorkoutsByDate(_, _)
groupWorkoutsByDate(workouts, groups) ==
    IF workouts = <<>> THEN groups
    ELSE LET workout == Head(workouts)
             date == formatDate(workout.start_date)
             created == [key \in DOMAIN groups \cup {date} |->
                            IF key \in DOMAIN groups THEN groups[key] ELSE <<>>]
         IN  groupWorkoutsByDate(Tail(workouts),
                 [created EXCEPT ![date] = Append(@, workout)])

\* Variant: a date that has a metric keeps it.
RECURSIVE groupDailyMetricsByDateFirst(_, _)
groupDailyMetricsByDateFirst(metrics, groups) ==
    IF metrics = <<>> THEN groups
    ELSE LET metric == Head(metrics)
             date == metric.date
         IN  groupDailyMetricsByDateFirst(Tail(metrics),
                 [key \in DOMAIN groups \cup {date} |->
                     IF key \in DOMAIN groups THEN groups[key] ELSE metric])

RECURSIVE groupDailyMetricsByDate(_, _)
groupDailyMetricsByDate(metrics, groups) ==
    IF metrics = <<>> THEN groups
    ELSE LET metric == Head(metrics)
             date == metric.date
         IN  groupDailyMetricsByDate(Tail(metrics),
                 [key \in DOMAIN groups \cup {date} |->
                     IF key = date THEN metric ELSE groups[key]])

\* Variant: only the workouts with a distance get a row.
workoutChartDataWithDistance(workouts) ==
    LET kept == FilterTruthy(workouts, "total_distance")
    IN  [i \in 1 .. Len(kept) |->
            LET workout == kept[i]
            IN  [date |-> workout.start_date,
                 duration |-> workout.duration,
                 distance |-> OrZero(workout.total_distance),
                 energy |-> OrZero(workout.total_energy_burned),
                 heart_rate |-> OrZero(workout.avg_heart_rate),
                 trimp_score |-> OrZero(workout.trimp_score),
                 activity_type |-> workout.workout_activity_type]]

\* workouts.map(workout => ({ ... })) of DashboardView and WorkoutView.
workoutChartData(workouts) ==
    [i \in 1 .. Len(workouts) |->
        LET workout == workouts[i]
        IN  [date |-> workout.start_date,
             duration |-> workout.duration,
             distance |-> OrZero(workout.total_distance),
             energy |-> OrZero(workout.total_energy_burned),
             heart_rate |-> OrZero(workout.avg_heart_rate),
             trimp_score |-> OrZero(workout.trimp_score),
             activity_type |-> workout.workout_activity_type]]

heartRateData(dailyMetrics) ==
    LET kept == FilterTruthy(dailyMetrics, "avg_heart_rate")
    IN  [i \in 1 .. Len(kept) |->
            LET metric == kept[i]
            IN  [date |-> metric.date, value |-> metric.avg_heart_rate.v]]

stepCountData(dailyMetrics) ==
    LET kept == FilterTruthy(dailyMetrics, "step_count")
    IN  [i \in 1 .. Len(kept) |->
            LET metric == kept[i]
            IN  [date |-> metric.date, value |-> metric.step_count.v]]

sleepData(nightlyMetrics) ==
    LET kept == FilterTruthy(nightlyMetrics, "sleep_duration")
    IN  [i \in 1 .. Len(kept) |->
            LET metric == kept[i]
            IN  [date |-> metric.date,
                 value |-> Fdiv(metric.sleep_duration.v, FromInt(60))]]

avgSleepDuration(nightlyMetrics) ==
    LET kept == FilterTruthy(nightlyMetrics, "sleep_duration")
    IN  Fdiv(calculateAverage([i \in 1 .. Len(kept) |-> kept[i].sleep_duration.v]),
             FromInt(60))

CallGroupWorkoutsByDate(workouts) ==
    /\ call = NoCall
    /\ call' = [fn |-> "groupWorkoutsByDate", arg |-> workouts,
                ret |-> groupWorkoutsByDate(workouts, NoGroups)]
    /\ UNCHANGED <<today, range>>
    /\ UNCHANGED fetchVars
    /\ UNCHANGED uiVars

CallGroupDailyMetricsByDate(metrics) ==
    /\ call = NoCall
    /\ call' = [fn |-> "groupDailyMetricsByDate", arg |-> metrics,
                ret |-> groupDailyMetricsByDate(metrics, NoGroups)]
    /\ UNCHANGED <<today, range>>
    /\ UNCHANGED fetchVars
    /\ UNCHANGED uiVars

\* A view renders with `workouts` in its hook state.
RenderWorkoutChart(view, workouts) ==
    /\ call = NoCall
    /\ call' = [fn |-> "workoutChartData", arg |-> workouts,
                ret |-> [view |-> view, rows |-> workoutChartData(workouts)]]
    /\ UNCHANGED <<today, range>>
    /\ UNCHANGED fetchVars
    /\ UNCHANGED uiVars

\* DashboardView renders with `dailyMetrics` in its hook state.
RenderDailyCharts(dailyMetrics) ==
    /\ call = NoCall
    /\ call' = [fn |-> "dailyCharts", arg |-> dailyMetrics,
                ret |-> [heartRateData |-> heartRateData(dailyMetrics),
                         stepCountData |-> stepCountData(dailyMetrics)]]
    /\ UNCHANGED <<today, range>>
    /\ UNCHANGED fetchVars
    /\ UNCHANGED uiVars

\* DashboardView renders with `nightlyMetrics` in its hook state.
RenderSleepChart(nightlyMetrics) ==
    /\ call = NoCall
    /\ call' = [fn |-> "sleepChart", arg |-> nightlyMetrics,
                ret |-> [sleepData |-> sleepData(nightlyMetrics),
                         avgSleepDuration |-> avgSleepDuration(nightlyMetrics)]]
    /\ UNCHANGED <<today, range>>
    /\ UNCHANGED fetchVars
    /\ UNCHANGED uiVars

NextCharts ==
    \/ \E workouts \in WorkoutsByStart : CallGroupWorkoutsByDate(workouts)
    \/ \E metrics \in DailyMetricsLists : CallGroupDailyMetricsByDate(metrics)
    \/ \E view \in Views : \E workouts \in WorkoutsByFields \cup WorkoutsByStart :
           RenderWorkoutChart(view, workouts)
    \/ \E dailyMetrics \in DailyMetricsLists : RenderDailyCharts(dailyMetrics)
    \/ \E nightlyMetrics \in NightlyMetricsLists : RenderSleepChart(nightlyMetrics)
    \/ EndRender

(***************************************************************************)
(* 6. The views and their hooks                                            *)
(*                                                                         *)
(* DashboardView and WorkoutView compute `dateRange = getDateRange()` in   *)
(* the body of the component, so every render hands a new object to the    *)
(* hooks.  A render is scheduled whenever a state cell changed; the render *)
(* and the effects it triggers are one step.                               *)
(***************************************************************************)

\* Requests of one hook awaiting their response at once.
MaxInFlight == 2

\* No view is mounted.
NoView == [name |-> "none", dirty |-> FALSE, seen |-> {}, shown |-> {}]

DashboardHooks == {"useWorkouts", "useDailyMetrics", "useNightlyMetrics", "useHealthSummary"}

HooksOf(name) == IF name = "DashboardView" THEN DashboardHooks ELSE {"useWorkouts"}

\* The argument a view passes to its hooks on a render: useState('all')
\* stands as long as the user selects nothing.
ViewParam(name, dateRange) ==
    IF name = "WorkoutView"
    THEN [start_date |-> dateRange.start_date, end_date |-> dateRange.end_date,
          workout_activity_type |-> Undefined]
    ELSE dateRange

\* The identity of an object created in this render: not the one of the
\* object of the render before.
FreshRef(old) == 1 - old

\* Variant: the view shows each fetcher's data as soon as that fetcher is done.
ViewOutputIncremental(name, s) == {h \in HooksOf(name) : ~s[h].loading}

\* What the view returns for hook states s: the hooks whose data is on the
\* screen.  Behind `if (workoutsLoading || dailyLoading || sleepLoading ||
\* summaryLoading)` and `if (loading)` there is the placeholder alone.
ViewOutput(name, s) ==
    IF \E h \in HooksOf(name) : s[h].loading THEN {} ELSE HooksOf(name)

\* The endpoints whose failures are followed: one with the catch block of
\* the collection hooks and the one of the summary.
FailingHooks == {"useWorkouts", "useHealthSummary"}

\* What the server answers to the requests of a view.
ViewResponses(h) == IF h \in CollectionHooks THEN {<<"e1">>} ELSE {<<"summaryA">>}

\* The effect of hook h runs after a render that passes `new`.
EffectRuns(h, new) == ~mounted[h] \/ DepsChanged(bound[h], new)

\* A render of the view and the effects after it.
ViewRender ==
    /\ page.name # "none"
    /\ page.dirty
    /\ \E dateRange \in {getDateRange(page.name, today, "30days")} :
        LET param == ViewParam(page.name, dateRange)
            new == [h \in Hooks |->
                       IF h \in calls
                       THEN [val |-> param, ref |-> FreshRef(bound[h].ref)]
                       ELSE bound[h]]
            fetching == {h \in calls : EffectRuns(h, new[h]) /\ ShouldFetch(h, new[h].val)}
            started == [h \in Hooks |-> IF h \in fetching THEN StartFetch(hs[h]) ELSE hs[h]]
        IN
        /\ \A h \in fetching : Cardinality(inflight[h]) < MaxInFlight
        /\ bound' = new
        /\ mounted' = [h \in Hooks |-> mounted[h] \/ h \in calls]
        /\ hs' = started
        /\ inflight' = [h \in Hooks |->
                           IF h \in fetching
                           THEN inflight[h] \cup
                                    {[id |-> Cardinality(inflight[h]) + 1, param |-> new[h].val]}
                           ELSE inflight[h]]
        /\ page' = [page EXCEPT !.dirty = (started # hs),
                                !.seen = {h \in calls : ~hs[h].loading},
                                !.shown = ViewOutput(page.name, hs)]
        /\ UNCHANGED <<calls, nextReq, nextRef, last>>
        /\ UNCHANGED dateVars
        /\ UNCHANGED <<upload, auth>>

\* The request of h issued last; the requests of a hook carry the same
\* parameter as long as the selection and the date stand.
AnyRequest(h) == CHOOSE req \in inflight[h] : req.id = Cardinality(inflight[h])

\* A request of hook h of the view resolves; the new array or object in the
\* state cell schedules a render.
ViewResolve(h, response) ==
    /\ page.name # "none"
    /\ inflight[h] # {}
    /\ hs' = Commit(h, FetchSuccess(h, hs[h], response))
    /\ inflight' = [inflight EXCEPT ![h] = @ \ {AnyRequest(h)}]
    /\ page' = [page EXCEPT !.dirty = TRUE]
    /\ UNCHANGED <<bound, calls, mounted, nextReq, nextRef, last>>
    /\ UNCHANGED dateVars
    /\ UNCHANGED <<upload, auth>>

\* A request of hook h of the view fails: the empty array a collection hook
\* stores is a new one and schedules a render; the other hooks schedule one
\* when a cell changes.
ViewReject(h) ==
    /\ page.name # "none"
    /\ h \in FailingHooks
    /\ inflight[h] # {}
    /\ hs' = Commit(h, FetchFailure(h, hs[h]))
    /\ inflight' = [inflight EXCEPT ![h] = @ \ {AnyRequest(h)}]
    /\ page' = [page EXCEPT !.dirty = \/ page.dirty
                                      \/ h \in CollectionHooks
                                      \/ FetchFailure(h, hs[h]) # hs[h]]
    /\ UNCHANGED <<bound, calls, mounted, nextReq, nextRef, last>>
    /\ UNCHANGED dateVars
    /\ UNCHANGED <<upload, auth>>

ViewSettle(h) == ViewReject(h) \/ \E response \in ViewResponses(h) : ViewResolve(h, response)

NextView ==
    \/ ViewRender
    \/ \E h \in Hooks : \E response \in ViewResponses(h) : ViewResolve(h, response)
    \/ \E h \in Hooks : ViewReject(h)

(***************************************************************************)
(* 7. UploadView.handleFileUpload                                          *)
(*                                                                         *)
(* The handler runs up to `await uploadHealthData(file)`, continues when   *)
(* the upload settles, and on success awaits loadUploads() before its      *)
(* finally block.  setInterval and setTimeout callbacks run between these  *)
(* steps in any order; a timer is counted from its creation to its         *)
(* clearInterval or to its firing.                                         *)
(***************************************************************************)

\* Uploads started in one visit of the page.
MaxUploads == 2

\* UploadView is not on the screen.
NoUpload ==
    [phase |-> "none", uploading |-> FALSE, progress |-> 0, message |-> Null,
     uploads |-> 0, stored |-> 0, intervals |-> 0, timeouts |-> 0,
     attempts |-> 0, outcome |-> "none", reset |-> FALSE]

\* UploadView after its mount: useState(false), useState(0), useState(null),
\* the list loaded from a server that holds no upload.
IdleUpload == [NoUpload EXCEPT !.phase = "idle"]

\* What the file input hands to the handler: no file, a file of another
\* type, an export file.
Files == {"none", "other", "export"}

\* The callback of setInterval: setUploadProgress(prev => Math.min(prev + 10, 90)).
ProgressTick(prev) == IF prev + 10 < 90 THEN prev + 10 ELSE 90

\* The finally block: setUploading(false) and the reset scheduled in 3 s.
UploadFinally(u, outcome) ==
    [u EXCEPT !.phase = "idle", !.uploading = FALSE, !.timeouts = @ + 1,
              !.outcome = outcome]

\* onChange of the file input, up to the first await.  The button is
\* disabled while `uploading` is set.
SelectFile(file) ==
    /\ upload.phase # "none"
    /\ ~upload.uploading
    /\ upload' =
           CASE file = "none" -> upload
             [] file = "other" -> [upload EXCEPT !.message = "error"]
             [] OTHER ->
                 [upload EXCEPT !.phase = "uploading", !.uploading = TRUE,
                                !.progress = 0, !.message = "info",
                                !.intervals = @ + 1, !.attempts = @ + 1,
                                !.outcome = "pending", !.reset = FALSE]
    /\ file = "export" => upload.attempts < MaxUploads
    /\ UNCHANGED fetchVars
    /\ UNCHANGED dateVars
    /\ UNCHANGED <<page, auth>>

\* One of the live interval timers fires.
Tick ==
    /\ upload.intervals > 0
    /\ upload' = [upload EXCEPT !.progress = ProgressTick(@)]
    /\ UNCHANGED fetchVars
    /\ UNCHANGED dateVars
    /\ UNCHANGED <<page, auth>>

\* uploadHealthData resolves: clearInterval(progressInterval),
\* setUploadProgress(100), the success message, then await loadUploads().
UploadResolves ==
    /\ upload.phase = "uploading"
    /\ upload' = [upload EXCEPT !.phase = "reloading", !.intervals = @ - 1,
                                !.progress = 100, !.message = "success",
                                !.stored = @ + 1, !.outcome = "success"]
    /\ UNCHANGED fetchVars
    /\ UNCHANGED dateVars
    /\ UNCHANGED <<page, auth>>

\* loadUploads settles (it catches its own failure), then the finally block.
LoadUploadsDone(ok) ==
    /\ upload.phase = "reloading"
    /\ upload' = UploadFinally([upload EXCEPT !.uploads = IF ok THEN upload.stored ELSE @],
                               "success")
    /\ UNCHANGED fetchVars
    /\ UNCHANGED dateVars
    /\ UNCHANGED <<page, auth>>

\* uploadHealthData rejects: the catch block sets the error message, then
\* the finally block.
UploadRejects ==
    /\ upload.phase = "uploading"
    /\ upload' = UploadFinally([upload EXCEPT !.message = "error"], "failure")
    /\ UNCHANGED fetchVars
    /\ UNCHANGED dateVars
    /\ UNCHANGED <<page, auth>>

\* The oldest pending 3 s timer fires: setUploadProgress(0), setMessage(null).
\* `reset` records that the timer of the attempt that ended last has fired.
ResetFires ==
    /\ upload.timeouts > 0
    /\ upload' = [upload EXCEPT !.progress = 0, !.message = Null,
                                !.timeouts = @ - 1,
                                !.reset = (upload.phase = "idle" /\ upload.timeouts = 1)]
    /\ UNCHANGED fetchVars
    /\ UNCHANGED dateVars
    /\ UNCHANGED <<page, auth>>

NextUpload ==
    \/ \E file \in Files : SelectFile(file)
    \/ Tick
    \/ UploadResolves
    \/ \E ok \in BOOLEAN : LoadUploadsDone(ok)
    \/ UploadRejects
    \/ ResetFires

(***************************************************************************)
(* 8. useAuth, HealthAnalyticsAPI.login / logout and the token store       *)
(*                                                                         *)
(* The token is the localStorage item 'authToken'.  A response passes the  *)
(* response interceptor before login or logout continue; the interceptor,  *)
(* the continuation in HealthAnalyticsAPI and the one in useAuth are one   *)
(* step.  Setting window.location.href loads the login page, which         *)
(* abandons the pending calls and runs useState's initialiser again.       *)
(***************************************************************************)

\* Tokens the server issues.
Tokens == {"t1", "t2"}

\* How the server answers: 2xx, 401, any other failure.
Statuses == {"ok", "unauthorized", "failed"}

NoStep == [op |-> "none", outcome |-> "none", prior |-> Null]

\* No component uses useAuth.
NoAuth ==
    [used |-> FALSE, token |-> Null, isAuthenticated |-> FALSE, pending |-> {},
     redirect |-> FALSE, last |-> NoStep]

\* HealthAnalyticsAPI.isAuthenticated(): !!localStorage.getItem('authToken').
IsAuthenticated(token) == token # Null

\* The token and the state cell, as a later step compares them.
AuthPrior(a) == [token |-> a.token, isAuthenticated |-> a.isAuthenticated]

\* The response interceptor's error branch.
ResponseError(a, status) ==
    IF status = "unauthorized"
    THEN [a EXCEPT !.token = Null, !.redirect = TRUE]
    ELSE a

\* useAuth().login is called: the request is sent.
LoginCall ==
    /\ auth.used
    /\ "login" \notin auth.pending
    /\ auth' = [auth EXCEPT !.pending = @ \cup {"login"},
                            !.last = [op |-> "call", outcome |-> "none", prior |-> AuthPrior(auth)]]
    /\ UNCHANGED fetchVars
    /\ UNCHANGED dateVars
    /\ UNCHANGED <<page, upload>>

\* The login request gets a 2xx answer whose body carries `token` (Null: no
\* token in the body): setItem when the token is truthy, then
\* setIsAuthenticated(true).
LoginResolves(token) ==
    /\ "login" \in auth.pending
    /\ auth' = [auth EXCEPT !.pending = @ \ {"login"},
                            !.token = IF token # Null THEN token ELSE @,
                            !.isAuthenticated = TRUE,
                            !.last = [op |-> "login", outcome |-> "resolved",
                                      prior |-> AuthPrior(auth)]]
    /\ UNCHANGED fetchVars
    /\ UNCHANGED dateVars
    /\ UNCHANGED <<page, upload>>

\* The login request fails with `status`: the interceptor, then both catch
\* blocks rethrow.
LoginThrows(status) ==
    /\ "login" \in auth.pending
    /\ status # "ok"
    /\ auth' = [ResponseError(auth, status) EXCEPT
                    !.pending = @ \ {"login"},
                    !.last = [op |-> "login", outcome |-> "threw",
                              prior |-> AuthPrior(auth)]]
    /\ UNCHANGED fetchVars
    /\ UNCHANGED dateVars
    /\ UNCHANGED <<page, upload>>

\* useAuth().logout is called.
LogoutCall ==
    /\ auth.used
    /\ "logout" \notin auth.pending
    /\ auth' = [auth EXCEPT !.pending = @ \cup {"logout"},
                            !.last = [op |-> "call", outcome |-> "none", prior |-> AuthPrior(auth)]]
    /\ UNCHANGED fetchVars
    /\ UNCHANGED dateVars
    /\ UNCHANGED <<page, upload>>

\* The logout request is answered with `status`: a failure passes the
\* interceptor and is logged; finally removeItem; then setIsAuthenticated(false).
LogoutCompletes(status) ==
    /\ "logout" \in auth.pending
    /\ auth' = [(IF status = "ok" THEN auth ELSE ResponseError(auth, status)) EXCEPT
                    !.pending = @ \ {"logout"},
                    !.token = Null,
                    !.isAuthenticated = FALSE,
                    !.last = [op |-> "logout", outcome |-> "resolved",
                              prior |-> AuthPrior(auth)]]
    /\ UNCHANGED fetchVars
    /\ UNCHANGED dateVars
    /\ UNCHANGED <<page, upload>>

\* The login page loads after window.location.href = '/login'.
PageLoad ==
    /\ auth.redirect
    /\ auth' = [auth EXCEPT !.redirect = FALSE, !.pending = {},
                            !.isAuthenticated = IsAuthenticated(auth.token),
                            !.last = [op |-> "load", outcome |-> "none",
                                      prior |-> AuthPrior(auth)]]
    /\ UNCHANGED fetchVars
    /\ UNCHANGED dateVars
    /\ UNCHANGED <<page, upload>>

NextAuth ==
    \/ LoginCall
    \/ \E token \in Tokens \cup {Null} : LoginResolves(token)
    \/ \E status \in Statuses : LoginThrows(status)
    \/ LogoutCall
    \/ \E status \in Statuses : LogoutCompletes(status)
    \/ PageLoad

(***************************************************************************)
(* 9. Specifications                                                       *)
(***************************************************************************)

\* The fetcher hooks, the clock standing still.
Init ==
    /\ InitFetch
    /\ today = [y |-> 2024, M |-> 2, D |-> 10]
    /\ range = NoRange
    /\ call = NoCall
    /\ page = NoView
    /\ upload = NoUpload
    /\ auth = NoAuth

Next == NextFetch

Spec == Init /\ [][Next]_vars

\* The date-range helpers, no hook mounted.
InitDates ==
    /\ InitFetch
    /\ calls = {"useWorkouts"}
    /\ today \in SystemDates
    /\ range = NoRange
    /\ call = NoCall
    /\ page = NoView
    /\ upload = NoUpload
    /\ auth = NoAuth

SpecDates == InitDates /\ [][NextDates]_vars

\* The scalar helpers, called on any input.
InitHelpers == Init /\ calls = {"useWorkouts"}

SpecStats == InitHelpers /\ [][NextStats]_vars

\* Grouping and the chart projections, on any response.
SpecCharts == InitHelpers /\ [][NextCharts]_vars

\* Every request that is in flight is eventually answered or fails.
Settle(i) ==
    \E h \in Hooks : \E req \in inflight[h] :
        /\ req.id = i
        /\ \/ Reject(h, req)
           \/ \E r \in ResponsesOf(h) : Resolve(h, req, r)

\* A guarded hook followed alone, mounted with any range, set or unset.
InitGuarded ==
    /\ \E h \in GuardedHooks : \E p \in UnsetRanges \cup {FirstParam(h)} :
           /\ calls = {h}
           /\ bound = [g \in Hooks |->
                          [val |-> IF g = h THEN p ELSE FirstParam(g), ref |-> 0]]
    /\ hs = [h \in Hooks |-> InitialState(h)]
    /\ mounted = [h \in Hooks |-> FALSE]
    /\ inflight = [h \in Hooks |-> {}]
    /\ nextReq = 1
    /\ nextRef = 1
    /\ last = [hook |-> Null, kind |-> "init", req |-> NoRequest,
               prior |-> Null, results |-> Null]
    /\ today = [y |-> 2024, M |-> 2, D |-> 10]
    /\ range = NoRange
    /\ call = NoCall
    /\ page = NoView
    /\ upload = NoUpload
    /\ auth = NoAuth

\* The steps of a hook whose result has no refetch function.
NextGuarded ==
    \/ \E h \in Hooks : Mount(h)
    \/ \E h \in Hooks : \E p \in RenderArgs(h) : Render(h, p)
    \/ \E h \in Hooks : \E req \in inflight[h] : \E r \in ResponsesOf(h) : Resolve(h, req, r)
    \/ \E h \in Hooks : \E req \in inflight[h] : Reject(h, req)

SpecGuarded == InitGuarded /\ [][NextGuarded]_vars

\* A view about to be mounted; the user selects nothing.
InitView ==
    /\ \E name \in Views :
           /\ page = [name |-> name, dirty |-> TRUE,
                      seen |-> {}, shown |-> {}]
           /\ calls = HooksOf(name)
    /\ today = [y |-> 2024, M |-> 2, D |-> 10]
    /\ bound = [h \in Hooks |-> [val |-> getDateRange("DashboardView", today, "30days"), ref |-> 0]]
    /\ hs = [h \in Hooks |-> InitialState(h)]
    /\ mounted = [h \in Hooks |-> FALSE]
    /\ inflight = [h \in Hooks |-> {}]
    /\ nextReq = 1
    /\ nextRef = 1
    /\ last = [hook |-> Null, kind |-> "init", req |-> NoRequest,
               prior |-> Null, results |-> Null]
    /\ range = NoRange
    /\ call = NoCall
    /\ upload = NoUpload
    /\ auth = NoAuth

SpecView == InitView /\ [][NextView]_vars

\* The view with every scheduled render taking place and every request
\* resolving.
FairSpecView ==
    /\ InitView
    /\ [][NextView]_vars
    /\ WF_vars(ViewRender)
    /\ \A h \in Hooks : WF_vars(ViewSettle(h))

\* One of the hook instances DashboardView calls, followed alone, every
\* request of which resolves.
InitSolo == Init /\ \E h \in DashboardHooks : calls = {h}

FairSpec == InitSolo /\ [][Next]_vars /\ \A i \in 1 .. MaxRequests : WF_vars(Settle(i))

\* UploadView on the screen, none of the data views mounted.
InitUpload ==
    /\ InitFetch
    /\ calls = {"useWorkouts"}
    /\ today = [y |-> 2024, M |-> 2, D |-> 10]
    /\ range = NoRange
    /\ call = NoCall
    /\ page = NoView
    /\ upload = IdleUpload
    /\ auth = NoAuth

SpecUpload == InitUpload /\ [][NextUpload]_vars

\* A component using useAuth, with or without a token stored by an earlier
\* visit.
InitAuth ==
    /\ InitFetch
    /\ calls = {"useWorkouts"}
    /\ today = [y |-> 2024, M |-> 2, D |-> 10]
    /\ range = NoRange
    /\ call = NoCall
    /\ page = NoView
    /\ upload = NoUpload
    /\ \E token \in Tokens \cup {Null} :
           auth = [NoAuth EXCEPT !.used = TRUE, !.token = token,
                                 !.isAuthenticated = IsAuthenticated(token)]

SpecAuth == InitAuth /\ [][NextAuth]_vars

(***************************************************************************)
(* 10. Properties                                                          *)
(***************************************************************************)

\* The step taken last was of kind k by hook instance h.
Did(h, k) == last.hook = h /\ last.kind = k

\* The requests hook instance h issues in the current step.
NewRequests(h) == inflight'[h] \ inflight[h]

\* The current step activates h: its mount effect, or a render whose
\* parameter object differs in identity from the bound one.
Activated(h) == (~mounted[h] /\ mounted'[h]) \/ bound'[h].ref # bound[h].ref

\* C1: when a request of a collection fetcher resolves successfully, the held
\* collection is exactly the response's results, error is null and loading is
\* false, whatever was held before.
C1_SuccessReplacesData ==
    \A h \in CollectionHooks :
        Did(h, "success") =>
            hs[h] = [data |-> last.results, loading |-> FALSE, error |-> Null]

\* A success that replaced a different, non-empty collection.
C1_Witness ==
    /\ last.kind = "success"
    /\ last.hook \in CollectionHooks
    /\ last.prior.data = <<"e1">>
    /\ last.results = <<"e1", "e2">>
    /\ hs[last.hook].data = <<"e1", "e2">>

\* C2: when a request of a collection fetcher fails, error is non-null, the
\* held collection is empty and loading is false.
C2_FailureResetsData ==
    \A h \in CollectionHooks :
        Did(h, "failure") =>
            /\ hs[h].error # Null
            /\ hs[h].data = <<>>
            /\ hs[h].loading = FALSE

\* A failure that discarded a non-empty collection.
C2_Witness ==
    /\ last.kind = "failure"
    /\ last.hook \in CollectionHooks
    /\ last.prior.data # <<>>
    /\ hs[last.hook].data = <<>>

\* C3: from the step that issues a request until that request resolves, the
\* held data does not change: a step after which some request of the fetcher
\* is in flight leaves the fetcher's data as it was.
C3_DataHeldWhileInFlight ==
    [][\A h \in Hooks : inflight'[h] # {} => hs'[h].data = hs[h].data]_vars

C5_LoadingWhileInFlight ==
    \A h \in Hooks : inflight[h] # {} => hs[h].loading

\* Two requests of h are in flight at once.
Overlap(h) == Cardinality(inflight[h]) >= 2

\* No request of h is in flight and its loading flag is down.
Settled(h) == inflight[h] = {} /\ ~hs[h].loading

\* C6: every request ends, on success and on failure alike, by setting
\* loading to false; and once two requests of a fetcher overlap and all
\* requests resolve, the fetcher reaches loading = false with none in flight.
C6_EveryRequestSettles ==
    /\ [](\A h \in Hooks : (Did(h, "success") \/ Did(h, "failure")) => ~hs[h].loading)
    /\ \A h \in DashboardHooks : Overlap(h) ~> Settled(h)

\* The last of two overlapping requests has just resolved.
C6_Witness ==
    /\ last.kind \in {"success", "failure"}
    /\ last.req.id >= 2
    /\ Settled(last.hook)
    /\ last.prior.loading = FALSE

\* C7: no automatic retry: a failure step issues no request, and a fetcher
\* holding an error issues one only when its parameter changes identity or
\* refetch is called.
C7_NoAutomaticRetry ==
    [][\A h \in Hooks :
          (hs[h].error # Null \/ (last'.hook = h /\ last'.kind = "failure")) =>
              (NewRequests(h) # {} =>
                  (bound'[h].ref # bound[h].ref \/ last'.kind = "refetch"))]_vars

\* After a failure the component re-rendered with the same parameter object
\* and nothing was requested.
C7_Witness ==
    /\ last.kind = "render"
    /\ hs[last.hook].error # Null
    /\ inflight[last.hook] = {}
    /\ ~hs[last.hook].loading

\* C8 as claimed: the result of every mounted fetcher carries a refetch
\* operation.
C8_EveryFetcherHasRefetch ==
    \A h \in Hooks : mounted[h] => "refetch" \in ResultFields(h)

\* C8 as amended: only useWorkouts returns refetch; calling it issues exactly
\* one new request with the currently bound filter and sets loading.
C8_OnlyWorkoutsHasRefetch ==
    [][/\ \A h \in Hooks : "refetch" \in ResultFields(h) <=> h = "useWorkouts"
       /\ last'.kind = "refetch" =>
            /\ last'.hook = "useWorkouts"
            /\ hs'["useWorkouts"].loading
            /\ inflight["useWorkouts"] \subseteq inflight'["useWorkouts"]
            /\ NewRequests("useWorkouts") = {last'.req}
            /\ last'.req.param = bound["useWorkouts"].val
            /\ hs'["useWorkouts"].data = hs["useWorkouts"].data
            /\ hs'["useWorkouts"].error = hs["useWorkouts"].error]_vars

\* refetch was called after a parameter change and a failure.
C8_Witness ==
    /\ Did("useWorkouts", "refetch")
    /\ last.prior.error # Null
    /\ last.prior.loading = FALSE
    /\ bound["useWorkouts"].val # FirstParam("useWorkouts")
    /\ last.req \in inflight["useWorkouts"]

\* C9: a step of one fetcher instance leaves the data, loading and error of
\* every other instance unchanged.
C9_InstancesIndependent ==
    [][\A h \in Hooks : last'.hook # h => hs'[h] = hs[h]]_vars

\* One instance committed a response while another was still loading.
C9_Witness ==
    /\ last.kind \in {"success", "failure"}
    /\ \E g \in Hooks \ {last.hook} : inflight[g] # {} /\ hs[g].loading
    /\ ~hs[last.hook].loading

\* The calendar, written out: the length of month M (0-based) of year y.
RefMonthLength(y, M) ==
    IF M = 1
    THEN (IF (y % 4 = 0 /\ y % 100 # 0) \/ y % 400 = 0 THEN 29 ELSE 28)
    ELSE <<31, 0, 31, 30, 31, 30, 31, 31, 30, 31, 30, 31>>[M + 1]

\* The last day of the month before t's month.
LastOfPrevMonth(t) ==
    IF t.M > 0
    THEN [y |-> t.y, M |-> t.M - 1, D |-> RefMonthLength(t.y, t.M - 1)]
    ELSE [y |-> t.y - 1, M |-> 11, D |-> 31]

\* The date n calendar days before t, walking back month by month.
RECURSIVE DaysBack(_, _)
DaysBack(t, n) ==
    IF n < t.D
    THEN [t EXCEPT !.D = t.D - n]
    ELSE DaysBack(LastOfPrevMonth(t), n - t.D)

DigitOf(c) == CHOOSE k \in 0 .. 9 : Digit(k) = c

\* Reading a 'YYYY-MM-DD' string back as a calendar date.
ReadYMD(str) ==
    [y |-> 1000 * DigitOf(str[1]) + 100 * DigitOf(str[2]) + 10 * DigitOf(str[3]) + DigitOf(str[4]),
     M |-> 10 * DigitOf(str[6]) + DigitOf(str[7]) - 1,
     D |-> 10 * DigitOf(str[9]) + DigitOf(str[10])]

IsYMD(str) ==
    /\ Len(str) = 10
    /\ str[5] = "-" /\ str[8] = "-"
    /\ \A i \in {1, 2, 3, 4, 6, 7, 9, 10} : \E k \in 0 .. 9 : Digit(k) = str[i]

\* C10: on every date d and for n in {7, 30, 90}, getLastNDays(n) returns
\* end_date = d and start_date = the date n calendar days before d, both
\* written YYYY-MM-DD; on 2024-03-10, n = 7 gives 2024-03-03 .. 2024-03-10.
C10_LastNDays ==
    /\ range # NoRange =>
          /\ range.days \in WindowDays
          /\ IsYMD(range.value.start_date) /\ IsYMD(range.value.end_date)
          /\ ReadYMD(range.value.end_date) = range.at
          /\ ReadYMD(range.value.start_date) = DaysBack(range.at, range.days)
    /\ (range.days = 7 /\ range.at = [y |-> 2024, M |-> 2, D |-> 10]) =>
          /\ range.value.start_date = <<"2", "0", "2", "4", "-", "0", "3", "-", "0", "3">>
          /\ range.value.end_date = <<"2", "0", "2", "4", "-", "0", "3", "-", "1", "0">>

\* getLastNDays(90) called in January: the window starts in the year before.
C10_Witness ==
    /\ range.days = 90
    /\ range.at.M = 0
    /\ ReadYMD(range.value.start_date).y = range.at.y - 1
    /\ ReadYMD(range.value.end_date) = range.at

\* The calendar, written out: the day of the week of t, 0 for Sunday.
RefWeekDay(t) ==
    LET m == t.M + 1
        y == IF m < 3 THEN t.y - 1 ELSE t.y
        k == <<0, 3, 2, 5, 0, 3, 5, 1, 4, 6, 2, 4>>[m]
    IN  (y + (y \div 4) - (y \div 100) + (y \div 400) + k + t.D) % 7

\* The case labels of the two switches.
HandledBy(view) ==
    IF view = "DashboardView"
    THEN {"7days", "30days", "week", "month"}
    ELSE {"7days", "30days", "90days"}

\* The selectors of the specification's enumerated set, as timeRange values.
EnumeratedSelectors == {"7days", "30days", "90days", "week", "month"}

\* r is the window [today - n, today].
IsLastDays(r, now, n) ==
    /\ IsYMD(r.start_date) /\ IsYMD(r.end_date)
    /\ ReadYMD(r.end_date) = now
    /\ ReadYMD(r.start_date) = DaysBack(now, n)

\* r is the week of `now`, Sunday to Saturday.
IsThisWeek(r, now) ==
    /\ IsYMD(r.start_date) /\ IsYMD(r.end_date)
    /\ ReadYMD(r.start_date) = DaysBack(now, RefWeekDay(now))
    /\ DaysBack(ReadYMD(r.end_date), 6) = ReadYMD(r.start_date)

\* r is the month of `now`, first day to last day.
IsThisMonth(r, now) ==
    /\ IsYMD(r.start_date) /\ IsYMD(r.end_date)
    /\ ReadYMD(r.start_date) = [y |-> now.y, M |-> now.M, D |-> 1]
    /\ ReadYMD(r.end_date) = [y |-> now.y, M |-> now.M, D |-> RefMonthLength(now.y, now.M)]

\* r is the window selector `timeRange` names.
IsOwnWindow(r, now, timeRange) ==
    CASE timeRange = "7days" -> IsLastDays(r, now, 7)
      [] timeRange = "30days" -> IsLastDays(r, now, 30)
      [] timeRange = "90days" -> IsLastDays(r, now, 90)
      [] timeRange = "week" -> IsThisWeek(r, now)
      [] timeRange = "month" -> IsThisMonth(r, now)
      [] OTHER -> FALSE

\* C11: in both views a timeRange value outside the cases of the switch
\* resolves to the 30-day window, a well-formed range.
C11_UnknownSelectorFallsBack ==
    call.fn = "getDateRange" =>
        (call.arg.timeRange \notin HandledBy(call.arg.view) =>
            IsLastDays(call.ret, call.arg.now, 30))

\* A value no view handles was resolved on a day whose 30-day window differs
\* from every other window.
C11_Witness ==
    /\ call.fn = "getDateRange"
    /\ call.arg.timeRange = "year"
    /\ call.arg.view = "WorkoutView"
    /\ call.arg.now = [y |-> 2024, M |-> 2, D |-> 10]
    /\ call.ret.start_date = <<"2", "0", "2", "4", "-", "0", "2", "-", "0", "9">>

\* C12 as claimed: each view resolves every selector of the enumerated set to
\* that selector's own window.
C12_EverySelectorOwnWindow ==
    call.fn = "getDateRange" =>
        (call.arg.timeRange \in EnumeratedSelectors =>
            IsOwnWindow(call.ret, call.arg.now, call.arg.timeRange))

\* C12 as amended: a view resolves the selectors its switch handles to their
\* own windows, and the other selectors of the enumerated set to the 30-day
\* window.
C12_HandledSelectorsOwnWindow ==
    call.fn = "getDateRange" =>
        (call.arg.timeRange \in EnumeratedSelectors =>
            IF call.arg.timeRange \in HandledBy(call.arg.view)
            THEN IsOwnWindow(call.ret, call.arg.now, call.arg.timeRange)
            ELSE IsOwnWindow(call.ret, call.arg.now, "30days"))

\* DashboardView resolved 'week' in a week that spans two years.
C12_Witness ==
    /\ call.fn = "getDateRange"
    /\ call.arg.view = "DashboardView"
    /\ call.arg.timeRange = "week"
    /\ ReadYMD(call.ret.start_date).y < ReadYMD(call.ret.end_date).y
    /\ RefWeekDay(ReadYMD(call.ret.start_date)) = 0

\* C13: on the empty sequence calculateAverage, calculateMin, calculateMax
\* and calculateSum all return 0.
C13_EmptyGivesZero ==
    (call.fn \in Aggregators /\ call.arg = <<>>) => call.ret = 0

\* calculateMax was called on the empty sequence, where Math.max() alone
\* would give -Infinity.
C13_Witness ==
    call.fn = "calculateMax" /\ call.arg = <<>> /\ call.ret = FromInt(0)

\* C14 as claimed: for every non-empty xs, calculateMin(xs) <=
\* calculateAverage(xs) <= calculateMax(xs), and the minimum and the maximum
\* are elements of xs.
C14_AverageBetweenMinAndMax ==
    (call.fn = "calculateAverage" /\ call.arg # <<>>) =>
        /\ calculateMin(call.arg) <= call.ret
        /\ call.ret <= calculateMax(call.arg)
        /\ calculateMin(call.arg) \in Elements(call.arg)
        /\ calculateMax(call.arg) \in Elements(call.arg)

StartingOn(workouts, key) ==
    SelectSeq(workouts, LAMBDA w : w.start_date.day = ReadYMD(key))

RECURSIVE SumOfLengths(_, _)
SumOfLengths(groups, keys) ==
    IF keys = {} THEN 0
    ELSE LET key == CHOOSE k \in keys : TRUE
         IN  Len(groups[key]) + SumOfLengths(groups, keys \ {key})

\* C16: groupWorkoutsByDate partitions its input: every workout is in exactly
\* one group, the one keyed by the calendar date of its start_date; a group
\* holds its workouts in input order; no group is empty; the group sizes sum
\* to the input length.
C16_GroupsPartitionInput ==
    call.fn = "groupWorkoutsByDate" =>
        /\ \A key \in DOMAIN call.ret :
               /\ IsYMD(key)
               /\ call.ret[key] = StartingOn(call.arg, key)
               /\ call.ret[key] # <<>>
        /\ \A i \in 1 .. Len(call.arg) :
               Cardinality({key \in DOMAIN call.ret :
                               \E j \in 1 .. Len(call.ret[key]) :
                                   call.ret[key][j] = call.arg[i]}) = 1
        /\ SumOfLengths(call.ret, DOMAIN call.ret) = Len(call.arg)

\* Three workouts on two days, the middle one alone on its day.
C16_Witness ==
    /\ call.fn = "groupWorkoutsByDate"
    /\ Len(call.arg) = 3
    /\ Cardinality(DOMAIN call.ret) = 2
    /\ call.arg[1].start_date.day = call.arg[3].start_date.day
    /\ call.arg[1].start_date.hour # call.arg[3].start_date.hour
    /\ \E key \in DOMAIN call.ret : call.ret[key] = <<call.arg[1], call.arg[3]>>

\* C17: groupDailyMetricsByDate maps each date to the last entity of the
\* input with that date, and its keys are the dates of the input.
C17_LastMetricPerDate ==
    call.fn = "groupDailyMetricsByDate" =>
        /\ DOMAIN call.ret = {call.arg[i].date : i \in 1 .. Len(call.arg)}
        /\ \A key \in DOMAIN call.ret :
               \E i \in 1 .. Len(call.arg) :
                   /\ call.ret[key] = call.arg[i]
                   /\ call.arg[i].date = key
                   /\ \A j \in (i + 1) .. Len(call.arg) : call.arg[j].date # key

\* Two metrics of one date: the second one is kept.
C17_Witness ==
    /\ call.fn = "groupDailyMetricsByDate"
    /\ Len(call.arg) = 2
    /\ call.arg[1].date = call.arg[2].date
    /\ call.arg[1].step_count # call.arg[2].step_count
    /\ call.ret[call.arg[1].date] = call.arg[2]

\* The number of a field, 0 when the field is null or undefined.
PresentOrZero(x) == IF x.tag \in {"null", "undefined"} THEN 0 ELSE x.v

\* C18: each row of the workout chart has distance, energy, heart_rate and
\* trimp_score equal to the workout's field when present and 0 when absent,
\* and copies duration, date and activity_type.
C18_AbsentFieldsDefaultToZero ==
    call.fn = "workoutChartData" =>
        /\ Len(call.ret.rows) = Len(call.arg)
        /\ \A i \in 1 .. Len(call.arg) :
               LET workout == call.arg[i]
                   row == call.ret.rows[i]
               IN  /\ row.distance = PresentOrZero(workout.total_distance)
                   /\ row.energy = PresentOrZero(workout.total_energy_burned)
                   /\ row.heart_rate = PresentOrZero(workout.avg_heart_rate)
                   /\ row.trimp_score = PresentOrZero(workout.trimp_score)
                   /\ row.duration = workout.duration
                   /\ row.date = workout.start_date
                   /\ row.activity_type = workout.workout_activity_type

\* The example of the claim: total_distance null, total_energy_burned 450.
C18_Witness ==
    /\ call.fn = "workoutChartData"
    /\ Len(call.arg) = 1
    /\ call.arg[1].total_distance = JsNull
    /\ call.arg[1].total_energy_burned = Num(FromInt(450))
    /\ call.arg[1].avg_heart_rate = JsUndefined
    /\ call.arg[1].trimp_score = Num(FromInt(80))
    /\ call.ret.rows[1].trimp_score = FromInt(80)
    /\ call.ret.rows[1].distance = 0
    /\ call.ret.rows[1].energy = FromInt(450)
    /\ call.ret.rows[1].heart_rate = 0

\* The entities of `metrics` whose `field` is not null, in input order.
NonNull(metrics, field) == SelectSeq(metrics, LAMBDA m : m[field].tag # "null")

\* C19 as claimed: the heart-rate, step-count and sleep series hold one
\* point for every entity whose field is non-null and none for the others,
\* in input order.
C19_OnePointPerPresentField ==
    /\ call.fn = "dailyCharts" =>
           /\ [i \in 1 .. Len(call.ret.heartRateData) |-> call.ret.heartRateData[i].date] =
                  [i \in 1 .. Len(NonNull(call.arg, "avg_heart_rate")) |->
                      NonNull(call.arg, "avg_heart_rate")[i].date]
           /\ [i \in 1 .. Len(call.ret.stepCountData) |-> call.ret.stepCountData[i].date] =
                  [i \in 1 .. Len(NonNull(call.arg, "step_count")) |->
                      NonNull(call.arg, "step_count")[i].date]
    /\ call.fn = "sleepChart" =>
           [i \in 1 .. Len(call.ret.sleepData) |-> call.ret.sleepData[i].date] =
               [i \in 1 .. Len(NonNull(call.arg, "sleep_duration")) |->
                   NonNull(call.arg, "sleep_duration")[i].date]

\* C20 as claimed: every sleep point's value is the entity's sleep_duration
\* divided by 60, and the average sleep figure is the mean of the non-null
\* sleep_duration values divided by 60.
C20_SleepInHours ==
    call.fn = "sleepChart" =>
        /\ \A i \in 1 .. Len(call.ret.sleepData) :
               \E j \in 1 .. Len(call.arg) :
                   /\ call.arg[j].date = call.ret.sleepData[i].date
                   /\ call.arg[j].sleep_duration.tag = "number"
                   /\ call.ret.sleepData[i].value =
                          Fdiv(call.arg[j].sleep_duration.v, FromInt(60))
        /\ call.ret.avgSleepDuration =
               Fdiv(calculateAverage([i \in 1 .. Len(NonNull(call.arg, "sleep_duration")) |->
                                         NonNull(call.arg, "sleep_duration")[i].sleep_duration.v]),
                    FromInt(60))

\* C21: a response is committed when it resolves, whatever parameter is
\* bound by then: after the success of a request whose parameter is no longer
\* the bound one, the fetcher holds that request's results with loading
\* false and error null.
C21_StaleResponseCommitted ==
    \A h \in Hooks :
        (Did(h, "success") /\ last.req.param # bound[h].val) =>
            /\ hs[h].data = last.results
            /\ ~hs[h].loading
            /\ hs[h].error = Null

\* The filter changed from A to B while A's request was in flight, B's
\* response resolved first and A's last: the fetcher is bound to B, holds A's
\* results and nothing is in flight.
C21_Witness ==
    /\ calls = {"useWorkouts"}
    /\ Did("useWorkouts", "success")
    /\ last.req.id = 1
    /\ last.req.param = FirstParam("useWorkouts")
    /\ nextReq = 3
    /\ bound["useWorkouts"].val.workout_activity_type = "running"
    /\ inflight["useWorkouts"] = {}
    /\ last.prior.data = <<"e1", "e2">>
    /\ ~last.prior.loading
    /\ hs["useWorkouts"] = [data |-> <<"e1">>, loading |-> FALSE, error |-> Null]

\* The current step is the resolution of a request of h.
Resolves(h) == last'.hook = h /\ last'.kind \in {"success", "failure"}

\* C28: a fetcher's error changes only when one of its requests resolves: a
\* success sets it to null, a failure sets it non-null, and every other step
\* (an activation, a refetch, a render) leaves it as it was; so a non-null
\* error is the mark of the most recently resolved request having failed.
C28_ErrorChangesOnlyOnResolve ==
    [][\A h \in Hooks :
          /\ (Resolves(h) /\ last'.kind = "success") => hs'[h].error = Null
          /\ (Resolves(h) /\ last'.kind = "failure") => hs'[h].error = ErrorMessage(h)
          /\ ~Resolves(h) => hs'[h].error = hs[h].error]_vars

\* After a failure a new request was issued: the error is still there, with
\* loading true and the request in flight.
C28_Witness ==
    /\ last.kind \in {"activate", "refetch"}
    /\ last.req \in inflight[last.hook]
    /\ last.prior.error # Null
    /\ ~last.prior.loading
    /\ hs[last.hook].error # Null
    /\ hs[last.hook].loading

\* Both dates of range p are non-empty strings.
BothDatesSet(p) == p.start_date # "" /\ p.end_date # ""

\* C26: useHealthSummary, useWorkoutTrends and useDailyTrends issue a
\* request only when both dates of the bound range are non-empty; as long as
\* no request was issued the state is the initial one (data null, loading
\* true, error null).
C26_NoRequestWithoutBothDates ==
    /\ [][\A h \in GuardedHooks :
             NewRequests(h) # {} =>
                 /\ BothDatesSet(bound'[h].val)
                 /\ \A r \in NewRequests(h) : BothDatesSet(r.param)]_vars
    /\ [](\A h \in GuardedHooks :
             (calls = {h} /\ nextReq = 1) => hs[h] = InitialState(h))

\* useWorkoutTrends was mounted with an unset range and re-rendered with
\* another one: nothing was requested and loading is still true.
C26_Witness ==
    /\ calls = {"useWorkoutTrends"}
    /\ mounted["useWorkoutTrends"]
    /\ last.kind = "skip"
    /\ bound["useWorkoutTrends"].ref > 0
    /\ ~BothDatesSet(bound["useWorkoutTrends"].val)
    /\ nextReq = 1
    /\ hs["useWorkoutTrends"] = [data |-> NoSummary, loading |-> TRUE, error |-> Null]

\* C27: when a request of useHealthSummary, useWorkoutTrends or
\* useDailyTrends fails, the error is set, loading is false and the value held
\* before is still held.
C27_FailureKeepsValue ==
    \A h \in GuardedHooks :
        Did(h, "failure") =>
            /\ hs[h].error = ErrorMessage(h)
            /\ ~hs[h].loading
            /\ hs[h].data = last.prior.data

\* A failure of useDailyTrends after a success: the trends are still held.
C27_Witness ==
    /\ Did("useDailyTrends", "failure")
    /\ last.prior.data = <<"trendsA">>
    /\ last.prior.error = Null
    /\ hs["useDailyTrends"].data = <<"trendsA">>
    /\ hs["useDailyTrends"].error # Null

\* The code unit of a character of a date string.
CharCode(c) == IF c = "-" THEN 45 ELSE 48 + DigitOf(c)

\* a <= b for strings of equal length, as the language compares strings.
RECURSIVE StringLeq(_, _)
StringLeq(a, b) ==
    IF a = <<>> THEN TRUE
    ELSE IF CharCode(Head(a)) # CharCode(Head(b)) THEN CharCode(Head(a)) < CharCode(Head(b))
    ELSE StringLeq(Tail(a), Tail(b))

\* C23: every DateRange a view passes to a fetcher has start_date <=
\* end_date: the ranges of getLastNDays(7 | 30 | 90), getThisWeek() and
\* getThisMonth(), on every current date.
C23_StartNotAfterEnd ==
    /\ range # NoRange => StringLeq(range.value.start_date, range.value.end_date)
    /\ call.fn = "getDateRange" =>
           /\ IsYMD(call.ret.start_date) /\ IsYMD(call.ret.end_date)
           /\ StringLeq(call.ret.start_date, call.ret.end_date)

\* DashboardView resolved 'month' on the first day of a leap February: the
\* range starts that day and ends on the 29th.
C23_Witness ==
    /\ call.fn = "getDateRange"
    /\ call.arg.view = "DashboardView"
    /\ call.arg.timeRange = "month"
    /\ call.arg.now = [y |-> 2024, M |-> 1, D |-> 1]
    /\ call.ret.start_date = <<"2", "0", "2", "4", "-", "0", "2", "-", "0", "1">>
    /\ call.ret.end_date = <<"2", "0", "2", "4", "-", "0", "2", "-", "2", "9">>

C22_ShownAsSoonAsDone ==
    page.name = "DashboardView" => page.seen \subseteq page.shown

\* C22 (amended): a render of DashboardView shows the data of its fetchers
\* only when all four have finished loading; while any of them loads, it
\* shows the placeholder and the data of none.
C22_ShownOnlyWhenAllDone ==
    page.name = "DashboardView" =>
        page.shown = IF page.seen = calls THEN calls ELSE {}

C22_Witness ==
    /\ page.name = "DashboardView"
    /\ "useWorkouts" \in page.seen
    /\ "useHealthSummary" \notin page.seen
    /\ page.shown = {}

\* C25 (as stated): with a view mounted and the selection left alone, when
\* every request resolves the hooks eventually come to rest for good: no
\* request in flight and no loading flag set.
C25_EventuallyAtRest ==
    <>[](\A h \in calls : inflight[h] = {} /\ ~hs[h].loading)


\* C29: in UploadView, once an upload attempt has ended (in success or in
\* failure) no progress timer is left running and uploading is false; once
\* the 3 s reset of that attempt has fired, the progress is 0 until the next
\* upload starts; while the upload request is in flight the progress is at
\* most 90; and the progress is 100 only after a successful upload.
C29_UploadEndsClean ==
    /\ (upload.phase = "idle" /\ upload.attempts > 0) =>
           (upload.intervals = 0 /\ ~upload.uploading)
    /\ (upload.phase = "idle" /\ upload.reset) => upload.progress = 0
    /\ upload.phase = "uploading" => upload.progress <= 90
    /\ upload.progress = 100 => upload.outcome = "success"

\* C30: right after useAuth.login has resolved with isAuthenticated set, a
\* token is stored; right after login has thrown, isAuthenticated and the
\* stored token are what they were before; right after logout has completed,
\* no token is stored and isAuthenticated is false, whatever the server
\* answered.
C30_AuthFollowsToken ==
    /\ (auth.last.op = "login" /\ auth.last.outcome = "resolved" /\ auth.isAuthenticated)
           => IsAuthenticated(auth.token)
    /\ (auth.last.op = "login" /\ auth.last.outcome = "threw")
           => AuthPrior(auth) = auth.last.prior
    /\ auth.last.op = "logout"
           => (~IsAuthenticated(auth.token) /\ ~auth.isAuthenticated)

====
